---- MODULE Spec2Model ----
(***************************************************************************)
(* Model of wiki_to_adoc.py: the export of Confluence pages to AsciiDoc    *)
(* files, with the optional recursive walk over child pages.               *)
(*                                                                         *)
(* A path is the sequence of its components (the string split on "/").     *)
(* The filesystem maps the absolute path of every existing entry to a      *)
(* directory or to a file with its content.  The process runs in Cwd.      *)
(***************************************************************************)
EXTENDS Integers, Sequences, FiniteSets, TLC

VARIABLES
    args,      \* the parsed command line: output, recursive, title_as_name, pages
    remote,    \* what the wiki answers: titles, child listings, statuses
    fs,        \* the filesystem
    stack,     \* the active process_page invocations, innermost last
    argi,      \* position of the main loop in args.pages
    status,    \* "running", "done" (exit 0) or "exit1"
    log,       \* history: what the run did, in order
    fs0,       \* history: the filesystem when the current run started
    run,       \* history: 1 in the first run, 2 in the run started right after it
    first      \* history: outcome and filesystem of the first run, once over

vars == <<args, remote, fs, stack, argi, status, log, fs0, run, first>>

\* ---------------------------------------------------------------- bounds
NPages == 3
MaxArgs == 2

\* ------------------------------------------------------------- sequences
Front(s) == SubSeq(s, 1, Len(s) - 1)
Last(s) == s[Len(s)]
IsPrefix(s, t) == Len(s) <= Len(t) /\ SubSeq(t, 1, Len(s)) = s
IsStrictPrefix(s, t) == IsPrefix(s, t) /\ Len(s) < Len(t)

\* ------------------------------------------------------------ filesystem
Cwd == <<"w">>
Dir == [kind |-> "dir", content |-> <<>>]
File(c) == [kind |-> "file", content |-> c]
IsDirAt(f, p) == p \in DOMAIN f /\ f[p].kind = "dir"
Put(f, p, n) == [q \in (DOMAIN f) \cup {p} |-> IF q = p THEN n ELSE f[q]]

\* The kernel's path resolution from directory cur: every component is looked
\* up in a directory that exists; "." stays, ".." goes to the parent.
\* ok says that every directory on the way exists; path is where it ends.
Lookup(cur, c) ==
    IF c = "." THEN cur
    ELSE IF c = ".." THEN (IF cur = <<>> THEN cur ELSE Front(cur))
    ELSE Append(cur, c)

RECURSIVE Walk(_, _, _)
Walk(f, cur, comps) ==
    IF comps = <<>> THEN [ok |-> TRUE, path |-> cur]
    ELSE IF ~IsDirAt(f, cur) THEN [ok |-> FALSE, path |-> cur]
    ELSE CHOOSE r \in { Walk(f, nxt, Tail(comps)) : nxt \in {Lookup(cur, Head(comps))} } :
             TRUE

\* a relative path is resolved from Cwd; empty components (doubled slashes)
\* count for nothing
NonEmpty(c) == c # ""
Resolve(f, text) ==
    CHOOSE r \in { Walk(f, Cwd, comps) : comps \in {SelectSeq(text, NonEmpty)} } : TRUE

\* os.path.exists and os.path.isdir
Exists(f, text) == LET r == Resolve(f, text) IN r.ok /\ r.path \in DOMAIN f
IsDir(f, text) == LET r == Resolve(f, text) IN r.ok /\ IsDirAt(f, r.path)

\* os.mkdir: "ok", "exists" (FileExistsError) or "err" (any other OSError)
Mkdir(f, text) ==
    LET r == Resolve(f, text)
    IN  IF ~r.ok THEN [res |-> "err", fs |-> f]
        ELSE IF r.path \in DOMAIN f THEN [res |-> "exists", fs |-> f]
        ELSE [res |-> "ok", fs |-> Put(f, r.path, Dir)]

\* os.makedirs(name) with exist_ok=False: when the head is missing it is made
\* first (a FileExistsError of its is swallowed) and a tail "." is done with
\* that; then the leaf is made, whatever os.mkdir raises being raised.
RECURSIVE Makedirs(_, _)
Makedirs(f, text) ==
    LET name == IF Last(text) = "" THEN Front(text) ELSE text
        head == Front(name)
        tail == Last(name)
        missing == head # <<>> /\ tail # "" /\ ~Exists(f, head)
        heads == IF missing THEN {Makedirs(f, head)} ELSE {[res |-> "ok", fs |-> f]}
    IN  CHOOSE made \in
            { IF up.res = "err" THEN up
              ELSE IF missing /\ tail = "." THEN [res |-> "ok", fs |-> up.fs]
              ELSE Mkdir(up.fs, text) : up \in heads } : TRUE

\* open(filename, "w"), write, write, close: creates or truncates the file
OpenWrite(f, text, c) ==
    LET r == Resolve(f, text)
    IN  IF ~r.ok \/ IsDirAt(f, r.path) THEN [ok |-> FALSE, fs |-> f]
        ELSE [ok |-> TRUE, fs |-> Put(f, r.path, File(c))]

\* --------------------------------------------------------------- normpath
\* os.path.normpath on the split path: drops "" and ".", folds "x/..",
\* keeps a leading ".." of a relative path, returns "." for nothing.
NormStep(new, c, initial) ==
    IF c \in {"", "."} THEN new
    ELSE IF \/ c # ".."
            \/ (~initial /\ new = <<>>)
            \/ (new # <<>> /\ Last(new) = "..")
         THEN Append(new, c)
    ELSE IF new # <<>> THEN Front(new)
    ELSE new

RECURSIVE NormComps(_, _, _)
NormComps(comps, new, initial) ==
    IF comps = <<>> THEN new
    ELSE CHOOSE r \in { NormComps(Tail(comps), nxt, initial) :
                            nxt \in {NormStep(new, Head(comps), initial)} } : TRUE

Normpath(t) ==
    IF t = <<"">> THEN <<".">>
    ELSE LET initial == Len(t) >= 2 /\ t[1] = ""
             two == /\ Len(t) >= 3 /\ t[1] = "" /\ t[2] = ""
                    /\ ~(Len(t) >= 4 /\ t[3] = "")
             new == NormComps(t, <<>>, initial)
             slashes == IF two THEN <<"", "">> ELSE <<"">>
         IN  IF initial THEN (IF new = <<>> THEN Append(slashes, "") ELSE slashes \o new)
             ELSE IF new = <<>> THEN <<".">> ELSE new

\* ----------------------------------------------------------------- remote
StatusOk == 200
Pages == 1..NPages
AttachmentId == NPages + 1
Content == Pages \cup {AttachmentId}
RootIds == {1, 2}

PageEntry(p) == [id |-> p, type |-> "page"]
AttachmentEntry == [id |-> AttachmentId, type |-> "attachment"]

\* child listings: a chain, one parent with all the others (an attachment
\* among them, in descending order of id), and a page that is listed under
\* its parent and under its parent's parent
Chain == [p \in Content |-> IF p < NPages THEN <<PageEntry(p + 1)>> ELSE <<>>]
Fan ==
    [p \in Content |->
        IF p = 1
        THEN <<PageEntry(NPages), AttachmentEntry>>
                 \o [k \in 1..(NPages - 2) |-> PageEntry(NPages - k)]
        ELSE <<>>]
Diamond ==
    [p \in Content |->
        IF p = 1 THEN <<PageEntry(2), PageEntry(3)>>
        ELSE IF p = 2 THEN <<PageEntry(3)>>
        ELSE <<>>]
Shapes == {Chain, Fan, Diamond}

DefaultTitle(p) == IF p = AttachmentId THEN <<"att">> ELSE <<"t" \o ToString(p)>>
OddTitles ==
    { <<"t2">>, <<"..", "x">>, <<"t1", "t2">>, <<".">>, <<"t1", "..", "t2">> }
FaultKinds == {"fetch", "convert", "list", "results"}

Wiki(shape) ==
    [ title |-> [p \in Content |-> DefaultTitle(p)],
      children |-> shape,
      fetch_status |-> [p \in Content |-> StatusOk],
      child_status |-> [p \in Content |-> StatusOk],
      malformed |-> {},
      bad_results |-> {} ]

\* one thing out of the ordinary at most: a response that fails, or a title
\* that is not a plain name
Oddities(titles) ==
    {[kind |-> "none", page |-> 1, title |-> <<>>]}
        \cup {[kind |-> k, page |-> p, title |-> <<>>] : k \in FaultKinds, p \in Pages}
        \cup (IF titles
              THEN {[kind |-> "title", page |-> p, title |-> t] : p \in Pages, t \in OddTitles}
              ELSE {})

With(w, o) ==
    CASE o.kind = "none" -> w
      [] o.kind = "fetch" -> [w EXCEPT !.fetch_status[o.page] = 404]
      [] o.kind = "convert" -> [w EXCEPT !.malformed = {o.page}]
      [] o.kind = "list" -> [w EXCEPT !.child_status[o.page] = 500]
      [] o.kind = "results" -> [w EXCEPT !.bad_results = {o.page}]
      [] o.kind = "title" -> [w EXCEPT !.title[o.page] = o.title]

Remotes(a) ==
    { With(Wiki(s), o) : s \in (IF a.recursive THEN Shapes ELSE {Chain}),
                         o \in Oddities(a.title_as_name) }

PageLists == UNION { [1..n -> RootIds] : n \in 1..MaxArgs }
\* --output out, and --output out/.. (the working directory, named through
\* out), the latter without --recursive
Outputs == { <<"out">>, <<"out", "..">> }
Arguments ==
    { a \in [output : Outputs, recursive : BOOLEAN, title_as_name : BOOLEAN,
             pages : PageLists] :
        a.output = <<"out">> \/ ~a.recursive }

\* initial filesystems: no output folder; an output folder with files of an
\* earlier export; a regular file in its place; an output folder where a
\* regular file sits at a child folder's path and a folder at a file's path
Stale == [heading |-> <<"old">>, body |-> <<>>]
Out == Cwd \o <<"out">>
FsBare == (<<>> :> Dir) @@ (Cwd :> Dir)
FsAbsent == FsBare
FsStale ==
    FsBare @@ (Out :> Dir) @@ (Append(Out, "1.adoc") :> File(Stale))
           @@ (Append(Out, "t1.adoc") :> File(Stale))
FsOutIsFile == FsBare @@ (Out :> File(Stale))
FsBlocked ==
    FsBare @@ (Out :> Dir) @@ (Append(Out, "1") :> File(Stale))
           @@ (Append(Out, "t1") :> File(Stale))
           @@ (Append(Out, "2.adoc") :> Dir) @@ (Append(Out, "t2.adoc") :> Dir)
Filesystems == {FsAbsent, FsStale, FsOutIsFile, FsBlocked}

\* ------------------------------------------------------------ the program
Body(p) == <<"html", p>>
Convert(html) == <<"adoc", html[2]>>
Heading(title, adoc) == [heading |-> title, body |-> adoc]

Basis(a, title, page_id) ==
    IF a.title_as_name THEN Normpath(title) ELSE <<ToString(page_id)>>
Filename(folder, basis) == folder \o Front(basis) \o <<Last(basis) \o ".adoc">>
ChildFolder(folder, basis) == folder \o basis

\* (mutant) the check of the folder's kind is missing
NotAFolderUnchecked(f, folder) == FALSE
NotAFolder(f, folder) == Exists(f, folder) /\ ~IsDir(f, folder)
\* (mutant) only server errors count as a failed fetch
PageStatusBadServer(status_code) == status_code >= 500
PageStatusBad(status_code) == status_code # StatusOk
\* (mutant) only client errors count as a failed listing
ChildStatusBadClient(status_code) == status_code >= 400 /\ status_code < 500
ChildStatusBad(status_code) == status_code # StatusOk
\* (mutant) the type of the listed entry is not looked at
IsPageAny(child_page) == TRUE
IsPage(child_page) == child_page.type = "page"
\* (mutant) the listing is walked from its end
ChildAtBackwards(child_page_ids, i) == child_page_ids[Len(child_page_ids) + 1 - i]
ChildAt(child_page_ids, i) == child_page_ids[i]
\* (mutant) the loop does not move on
NextIndexStuck(i) == i
NextIndex(i) == i + 1

Frame(page_id, folder, path) ==
    [ page_id |-> page_id, output_folder |-> folder, path |-> path,
      pc |-> "create_folder", title |-> <<>>, adoc |-> <<>>,
      child_page_ids |-> <<>>, i |-> 1 ]

Running == status = "running"
Top == stack[Len(stack)]
Event(op, fr, target, code) ==
    [op |-> op, page |-> fr.page_id, path |-> fr.path,
     folder |-> fr.output_folder, target |-> target, code |-> code]
Returned(fr) == Event("return", fr, <<>>, 0)
Logged(e) == log' = Append(log, e)
Logged2(e, g) == log' = Append(Append(log, e), g)

\* the top invocation goes on, with the given fields changed
Goto(fr) == stack' = [stack EXCEPT ![Len(stack)] = fr]
\* the top invocation returns to its caller
Return == stack' = Front(stack)
\* (mutant) the handler logs the error and returns
UnwindSwallowed == stack' = Front(stack) /\ status' = status
\* an exception or exit leaves the top invocation: it arrives in the caller's
\* try block (line 89), or ends the process when the caller is the main loop
Unwind ==
    LET rest == Front(stack)
    IN  IF rest = <<>>
        THEN stack' = <<>> /\ status' = "exit1"
        ELSE stack' = [rest EXCEPT ![Len(rest)].pc = "except"] /\ status' = status

Init ==
    /\ args \in Arguments
    /\ remote \in Remotes(args)
    /\ fs \in Filesystems
    /\ fs0 = fs
    /\ stack = <<>>
    /\ argi = 1
    /\ status = "running"
    /\ log = <<>>
    /\ run = 1
    /\ first = [status |-> "running", fs |-> fs]

\* for page in args.pages: process_page(config, page)
MainLoop ==
    /\ Running /\ stack = <<>> /\ argi <= Len(args.pages)
    /\ LET fr == Frame(args.pages[argi], args.output, <<argi>>)
       IN  stack' = <<fr>> /\ Logged(Event("call", fr, <<>>, 0))
    /\ argi' = argi + 1
    /\ UNCHANGED <<args, remote, fs, status, fs0, run, first>>

\* the script ends after the last page
MainDone ==
    /\ Running /\ stack = <<>> /\ argi > Len(args.pages)
    /\ status' = "done"
    /\ UNCHANGED <<args, remote, fs, stack, argi, log, fs0, run, first>>

\* create_folder(service_config.output_folder), before the try block
CreateFolder ==
    /\ Running /\ stack # <<>> /\ Top.pc = "create_folder"
    /\ LET folder == Top.output_folder
           made == Makedirs(fs, folder)
       IN  IF NotAFolder(fs, folder)
           THEN /\ Unwind /\ fs' = fs
                /\ Logged(Event("exit_folder", Top, folder, 1))
           ELSE IF Exists(fs, folder)
           THEN /\ Goto([Top EXCEPT !.pc = "fetch"]) /\ fs' = fs
                /\ status' = status /\ log' = log
           ELSE IF made.res = "ok"
           THEN /\ Goto([Top EXCEPT !.pc = "fetch"]) /\ fs' = made.fs
                /\ status' = status
                /\ Logged(Event("makedirs", Top, folder, 0))
           ELSE /\ Unwind /\ fs' = made.fs
                /\ Logged(Event("raise", Top, folder, 0))
    /\ UNCHANGED <<args, remote, argi, fs0, run, first>>

\* requests.get of the page and the check of its status code
Fetch ==
    /\ Running /\ stack # <<>> /\ Top.pc = "fetch"
    /\ LET status_code == remote.fetch_status[Top.page_id]
           fetched == Event("fetch", Top, <<>>, status_code)
       IN  IF PageStatusBad(status_code)
           THEN Return /\ Logged2(fetched, Returned(Top))
           ELSE Goto([Top EXCEPT !.pc = "convert"]) /\ Logged(fetched)
    /\ UNCHANGED <<args, remote, fs, argi, status, fs0, run, first>>

\* resp.json(), the title and body, pandoc.read and pandoc.write
ConvertPage ==
    /\ Running /\ stack # <<>> /\ Top.pc = "convert"
    /\ IF Top.page_id \in remote.malformed
       THEN /\ Goto([Top EXCEPT !.pc = "except"])
            /\ Logged(Event("raise", Top, <<>>, 0))
       ELSE /\ Goto([Top EXCEPT !.pc = "write",
                                !.title = remote.title[Top.page_id],
                                !.adoc = Convert(Body(Top.page_id))])
            /\ log' = log
    /\ UNCHANGED <<args, remote, fs, argi, status, fs0, run, first>>

\* the file is opened for writing, written and closed
WriteFile ==
    /\ Running /\ stack # <<>> /\ Top.pc = "write"
    /\ LET filename == Filename(Top.output_folder, Basis(args, Top.title, Top.page_id))
           out == OpenWrite(fs, filename, Heading(Top.title, Top.adoc))
           written == Event("write", Top, filename, 0)
       IN  IF ~out.ok
           THEN /\ Goto([Top EXCEPT !.pc = "except"]) /\ fs' = fs
                /\ Logged(Event("raise", Top, filename, 0))
           ELSE /\ fs' = out.fs
                /\ IF args.recursive
                   THEN Goto([Top EXCEPT !.pc = "list"]) /\ Logged(written)
                   ELSE Return /\ Logged2(written, Returned(Top))
    /\ UNCHANGED <<args, remote, argi, status, fs0, run, first>>

\* requests.get of the child pages, the check of its status code, the results
ListChildren ==
    /\ Running /\ stack # <<>> /\ Top.pc = "list"
    /\ LET status_code == remote.child_status[Top.page_id]
           listed == Event("list", Top, <<>>, status_code)
       IN  IF ChildStatusBad(status_code)
           THEN Return /\ Logged2(listed, Returned(Top))
           ELSE IF Top.page_id \in remote.bad_results
           THEN /\ Goto([Top EXCEPT !.pc = "except"])
                /\ Logged2(listed, Event("raise", Top, <<>>, 0))
           ELSE /\ Goto([Top EXCEPT !.pc = "loop",
                                    !.child_page_ids = remote.children[Top.page_id],
                                    !.i = 1])
                /\ Logged(listed)
    /\ UNCHANGED <<args, remote, fs, argi, status, fs0, run, first>>

\* one round of the loop over the listed children
ChildLoop ==
    /\ Running /\ stack # <<>> /\ Top.pc = "loop"
    /\ IF Top.i > Len(Top.child_page_ids)
       THEN Return /\ Logged(Returned(Top))
       ELSE LET child_page == ChildAt(Top.child_page_ids, Top.i)
                folder == ChildFolder(Top.output_folder,
                                      Basis(args, Top.title, Top.page_id))
                caller == [Top EXCEPT !.i = NextIndex(Top.i)]
                callee == Frame(child_page.id, folder, Append(Top.path, Top.i))
            IN  IF IsPage(child_page)
                THEN /\ stack' = Append([stack EXCEPT ![Len(stack)] = caller], callee)
                     /\ Logged(Event("call", callee, <<>>, 0))
                ELSE Goto(caller) /\ log' = log
    /\ UNCHANGED <<args, remote, fs, argi, status, fs0, run, first>>

\* except: logging.error and exit(1)
Except ==
    /\ Running /\ stack # <<>> /\ Top.pc = "except"
    /\ Unwind
    /\ Logged(Event("exit", Top, <<>>, 1))
    /\ UNCHANGED <<args, remote, fs, argi, fs0, run, first>>

\* the same command line is run again, right after the first run ended
Rerun ==
    /\ ~Running /\ run = 1
    /\ first' = [status |-> status, fs |-> fs]
    /\ run' = 2
    /\ fs0' = fs
    /\ status' = "running"
    /\ argi' = 1
    /\ log' = <<>>
    /\ UNCHANGED <<args, remote, fs, stack>>

Next ==
    \/ MainLoop
    \/ MainDone
    \/ CreateFolder
    \/ Fetch
    \/ ConvertPage
    \/ WriteFile
    \/ ListChildren
    \/ ChildLoop
    \/ Except

NextTwice == Next \/ Rerun

Spec == Init /\ [][Next]_vars

\* one thread runs the script: a step that can be taken is taken
FairSpec == Spec /\ WF_vars(Next)

\* two runs, one after the other
SpecTwice == Init /\ [][NextTwice]_vars

\* ================================================================ claims
Events == DOMAIN log
Fetched(k) == log[k].op = "fetch"
FetchedOk(k) == log[k].op = "fetch" /\ log[k].code = StatusOk
\* what the file of page p is to hold: "= <title>", a blank line, the AsciiDoc
PageContent(p) == Heading(remote.title[p], Convert(Body(p)))
\* the path "<output folder>/<basis>.adoc" of the invocation that logged e
FileOf(e) == Filename(e.folder, Basis(args, remote.title[e.page], e.page))
HoldsPage(f, text, p) ==
    LET r == Resolve(f, text)
    IN  /\ r.ok /\ r.path \in DOMAIN f
        /\ f[r.path].kind = "file" /\ f[r.path].content = PageContent(p)

\* C1: when a run completes, every invocation whose fetch returned 200 has
\* its file at <its output folder>/<basis>.adoc, holding that page's title
\* heading and converted body.
C1_OneFilePerPage ==
    status = "done" =>
        \A k \in Events : FetchedOk(k) => HoldsPage(fs, FileOf(log[k]), log[k].page)

\* the command-line output folder as an absolute path
OutputRoot == NormComps(Cwd \o args.output, <<>>, TRUE)

\* C10: every file and folder the exporter creates is the command-line output
\* folder, a folder on the way to it, or lies inside it, and the file of a
\* page is a direct entry of the output folder of its invocation.
C10_Contained ==
    /\ \A p \in DOMAIN fs :
           p \notin DOMAIN fs0 =>
               IsPrefix(OutputRoot, p) \/ IsPrefix(p, Cwd \o args.output)
    /\ \A k \in Events :
           log[k].op = "write" =>
               Front(Resolve(fs, log[k].target).path) = Resolve(fs, log[k].folder).path

\* C6: a second run with the same command line and the same remote responses,
\* started right after the first, ends as the first did (completion or exit
\* 1) and leaves the filesystem exactly as the first run left it.
C6_Idempotent ==
    (run = 2 /\ ~Running) => (status = first.status /\ fs = first.fs)

\* a second run that went through the whole tree again, rewriting files and
\* finding its folders already there
C6_Witness ==
    /\ run = 2 /\ status = "done" /\ args.recursive
    /\ \E k \in Events : log[k].op = "write" /\ Len(log[k].path) > 1
    /\ fs # FsStale /\ fs0 = fs

\* ------------------------------------------------- the history, read back
Min(S) == CHOOSE x \in S : \A y \in S : x <= y
Called(path) == \E k \in Events : log[k].op = "call" /\ log[k].path = path
CallOf(path) == log[CHOOSE k \in Events : log[k].op = "call" /\ log[k].path = path]
\* the entries an invocation is one of: the listing of its caller's page, or
\* the page identifiers of the command line
Siblings(path) ==
    IF Len(path) = 1
    THEN [n \in DOMAIN args.pages |-> PageEntry(args.pages[n])]
    ELSE remote.children[CallOf(Front(path)).page]
\* the invocation that returned at event k is followed by the next entry of
\* type page after it, by its caller's return when there is none, or, for the
\* last command-line identifier, by the end of the run
GoesOn(k) ==
    LET path == log[k].path
        later == {n \in DOMAIN Siblings(path) :
                      n > Last(path) /\ Siblings(path)[n].type = "page"}
    IN  IF k = Len(log)
        THEN status = "running" \/ (status = "done" /\ Len(path) = 1 /\ later = {})
        ELSE IF later = {}
        THEN /\ Len(path) > 1
             /\ log[k + 1].op = "return" /\ log[k + 1].path = Front(path)
        ELSE /\ log[k + 1].op = "call"
             /\ log[k + 1].path = Append(Front(path), Min(later))
             /\ log[k + 1].page = Siblings(path)[Min(later)].id
ReturnsAt(k) ==
    k < Len(log) /\ log[k + 1].op = "return" /\ log[k + 1].path = log[k].path

\* the listing logged at event k returned 200 and its results were read
Listed(k) ==
    /\ log[k].op = "list" /\ log[k].code = StatusOk
    /\ ~(k < Len(log) /\ log[k + 1].op = "raise" /\ log[k + 1].path = log[k].path)

C3_FetchSkipped ==
    \A k \in Events :
        (Fetched(k) /\ log[k].code # StatusOk) =>
            /\ ReturnsAt(k)
            /\ \A m \in Events :
                   (IsPrefix(log[k].path, log[m].path) /\ m \notin {k, k + 1}) =>
                       /\ m < k
                       /\ log[m].path = log[k].path
                       /\ log[m].op \in {"call", "makedirs"}
            /\ ~ReturnsAt(k) \/ GoesOn(k + 1)

\* a child whose fetch failed, and the sibling listed after it invoked next
C3_Witness ==
    \E k \in Events :
        /\ Fetched(k) /\ log[k].code # StatusOk /\ Len(log[k].path) = 2
        /\ k + 2 <= Len(log) /\ log[k + 2].op = "call"

\* an exception was raised or exit was called, at the first such event
Aborting == \E k \in Events : log[k].op \in {"raise", "exit", "exit_folder"}
AbortedAt == Min({k \in Events : log[k].op \in {"raise", "exit", "exit_folder"}})

\* C4: once an exception is raised in an invocation at any depth, the run
\* does nothing but pass through the handlers of the callers: no fetch,
\* listing, folder or file follows, the filesystem stays as it is, the run
\* does not complete, and the process ends with exit status 1.
C4_AnyExceptionExits ==
    /\ [](Aborting =>
             /\ status # "done"
             /\ \A m \in Events : m > AbortedAt => log[m].op = "exit"
             /\ Running => (stack # <<>> /\ Top.pc = "except"))
    /\ [][Aborting => fs' = fs]_vars
    /\ (Aborting ~> status = "exit1")

\* a child raised after its parent's file was written, with a command-line
\* identifier still to come: the process is over
C4_Witness ==
    /\ status = "exit1"
    /\ argi <= Len(args.pages)
    /\ \E k \in Events :
           /\ log[k].op = "raise" /\ Len(log[k].path) >= 2
           /\ \E m \in 1..k : log[m].op = "write"

\* the top invocation is about to get a status other than 200 for its listing
ListingFails ==
    /\ Running /\ stack # <<>> /\ Top.pc = "list"
    /\ remote.child_status[Top.page_id] # StatusOk

\* C5: when the child listing returns a status other than 200, the page's
\* file is there with the page's text and remains a file, the step changes
\* nothing on the filesystem, no child is invoked and no folder made below
\* the page, and the invocation returns, the run going on with the next
\* sibling or command-line identifier.
C5_ListingSkipped ==
    /\ [](ListingFails =>
             HoldsPage(fs, Filename(Top.output_folder,
                                    Basis(args, remote.title[Top.page_id], Top.page_id)),
                       Top.page_id))
    /\ [][ListingFails => (fs' = fs /\ stack' = Front(stack) /\ status' = status)]_vars
    /\ [](\A k \in Events :
             (log[k].op = "list" /\ log[k].code # StatusOk) =>
                 /\ ReturnsAt(k)
                 /\ \E m \in 1..k :
                        /\ log[m].op = "write" /\ log[m].path = log[k].path
                        /\ LET r == Resolve(fs, log[m].target)
                           IN  r.ok /\ r.path \in DOMAIN fs /\ fs[r.path].kind = "file"
                 /\ \A m \in Events : ~IsStrictPrefix(log[k].path, log[m].path)
                 /\ \A m \in Events : m > k + 1 => log[m].path # log[k].path
                 /\ ~ReturnsAt(k) \/ GoesOn(k + 1))

\* a child whose listing failed, and the sibling listed after it invoked next
C5_Witness ==
    \E k \in Events :
        /\ log[k].op = "list" /\ log[k].code # StatusOk /\ Len(log[k].path) = 2
        /\ k + 2 <= Len(log) /\ log[k + 2].op = "call"

\* the output folder of the top invocation exists and is not a folder
FolderIsNoFolder ==
    /\ Running /\ stack # <<>> /\ Top.pc = "create_folder"
    /\ Exists(fs, Top.output_folder) /\ ~IsDir(fs, Top.output_folder)

\* C7: when the output folder of an invocation exists and is not a folder,
\* create_folder exits: the filesystem is left alone, no fetch, folder or
\* file of that invocation follows and the exit reaches the callers' handlers
\* or ends the process with status 1; when the command-line output path is
\* not a folder the run ends so before any fetch, with nothing created.
C7_NoFolderExits ==
    /\ [][FolderIsNoFolder =>
             /\ fs' = fs
             /\ log' = Append(log, Event("exit_folder", Top, Top.output_folder, 1))
             /\ IF Len(stack) = 1
                THEN status' = "exit1" /\ stack' = <<>>
                ELSE status' = status /\ stack'[Len(stack) - 1].pc = "except"]_vars
    /\ [](\A k \in Events :
             log[k].op = "exit_folder" =>
                 /\ \A m \in Events :
                        log[m].path = log[k].path => log[m].op \in {"call", "exit_folder"}
                 /\ \A m \in Events : m > k => log[m].op = "exit"
                 /\ status = "exit1" \/ (Running /\ stack # <<>> /\ Top.pc = "except"))
    /\ []((Exists(fs0, args.output) /\ ~IsDir(fs0, args.output)) =>
             /\ fs = fs0
             /\ \A k \in Events : log[k].op \in {"call", "exit_folder"}
             /\ Len(log) <= 2
             /\ status # "done"
             /\ stack = <<>> \/ FolderIsNoFolder)

\* a child's output folder is a regular file: the process has ended, after the
\* parent's file was written
C7_Witness ==
    /\ status = "exit1"
    /\ \E k \in Events :
           /\ log[k].op = "exit_folder" /\ Len(log[k].path) >= 2
           /\ \E m \in 1..k : log[m].op = "write"

\* lexicographic order of call paths: a caller before its callees, an entry
\* before the entries listed after it
LexLess(s, t) ==
    \E n \in 1..Len(t) :
        /\ n <= Len(s) + 1
        /\ SubSeq(s, 1, n - 1) = SubSeq(t, 1, n - 1)
        /\ n = Len(s) + 1 \/ s[n] < t[n]

\* C8: the walk is depth-first and pre-order: a page is fetched after the
\* file of every page above it was written; the page fetched at a position is
\* the one the listing (or the command line) names there; pages are fetched
\* in the order of their positions; and an invocation that is not above the
\* page being fetched has returned, with all its subtree, before that fetch.
C8_DepthFirstPreOrder ==
    \A b \in Events :
        Fetched(b) =>
            /\ \A n \in 1..(Len(log[b].path) - 1) :
                   \E m \in 1..b : /\ log[m].op = "write"
                                   /\ log[m].path = SubSeq(log[b].path, 1, n)
            /\ Last(log[b].path) \in DOMAIN Siblings(log[b].path)
            /\ Siblings(log[b].path)[Last(log[b].path)].id = log[b].page
            /\ \A a \in 1..(b - 1) :
                   Fetched(a) =>
                       /\ LexLess(log[a].path, log[b].path)
                       /\ IsPrefix(log[a].path, log[b].path)
                              \/ \E r \in a..b :
                                     /\ log[r].op = "return"
                                     /\ log[r].path = log[a].path
                                     /\ \A m \in r..Len(log) :
                                            IsPrefix(log[a].path, log[m].path) => m = r

\* a grandchild, then the child listed after its parent, then the second
\* command-line identifier
C8_Witness ==
    /\ status = "done"
    /\ \E a, b, c \in Events :
           /\ a < b /\ b < c
           /\ Fetched(a) /\ log[a].path = <<1, 1, 1>>
           /\ Fetched(b) /\ log[b].path = <<1, 2>>
           /\ Fetched(c) /\ log[c].path = <<2>>

\* the page identifiers from the command line down to the invocation of event k
IdPath(k) ==
    [n \in 1..Len(log[k].path) |-> CallOf(SubSeq(log[k].path, 1, n)).page]

\* C9 (as stated): the run ends, and a page is fetched at most once per path
\* of page identifiers that leads to it from a requested identifier.
C9_OncePerIdPath ==
    /\ <>(status \in {"done", "exit1"})
    /\ [](\A a \in Events :
             Fetched(a) =>
                 \A b \in Events : (Fetched(b) /\ IdPath(a) = IdPath(b)) => a = b)

\* C9 (amended): the run ends, by completing after the last command-line
\* identifier or by exit status 1, and a page is fetched at most once per
\* invocation: once per position in the command line and per path of listing
\* positions that leads from it to the page.
C9_Terminates ==
    /\ <>(status \in {"done", "exit1"})
    /\ [](status = "done" => (argi = Len(args.pages) + 1 /\ Called(<<Len(args.pages)>>)))
    /\ [](\A a \in Events :
             Fetched(a) =>
                 \A b \in Events : (Fetched(b) /\ log[a].path = log[b].path) => a = b)

\* a run that completed and fetched one page along two paths
C9_Witness ==
    /\ status = "done"
    /\ \E a, b \in Events :
           /\ Fetched(a) /\ Fetched(b)
           /\ log[a].page = log[b].page
           /\ Len(log[a].path) # Len(log[b].path)

====
